---- MODULE Spec2Model ----
(***************************************************************************)
(* Model of fern.analysis (src/src/fern/analysis.py): the resonance        *)
(* pipeline extract_resonance_from_audio.                                  *)
(*                                                                         *)
(* One call of the function is one behaviour.  The audio buffer is         *)
(* abstracted to its length (audio_len), its array kind and, per frame,    *)
(* the answer of the LPC / root-finding backend (librosa.lpc, np.roots):   *)
(* either an exception or a set of complex roots.  Roots are points of the *)
(* grid {-1,0,1} x {-1,0,1}, on which arctan2 is an exact multiple of      *)
(* pi/4, so a frequency angle * sample_rate / (2 pi) is k * sample_rate/8. *)
(* Floats are exact: a mean is a reduced fraction, a standard deviation    *)
(* the square root of a reduced fraction.                                  *)
(***************************************************************************)
EXTENDS Integers, Sequences, FiniteSets, TLC

VARIABLES
    audio_len,          \* len(audio_data)
    kind,               \* what audio_data is: see Kinds
    librosa_installed,  \* whether "import librosa" succeeds
    sample_rate,        \* the sample_rate argument
    pc,                 \* "call", "loop", "stats", "returned", "raised"
    n_frames,           \* local n_frames
    i,                  \* loop variable of "for i in range(n_frames)"
    roots,              \* np.roots(lpc_coeffs) of the frame processed last
    frequencies,        \* local frequencies (line 141) of that frame
    f1_values,          \* local f1_values
    f2_values,          \* local f2_values
    f3_values,          \* local f3_values
    valid_f1,           \* local valid_f1
    valid_f2,           \* local valid_f2
    valid_f3,           \* local valid_f3
    result,             \* the dictionary returned
    exc,                \* the exception raised outside the per-frame try
    processed,          \* history: frames sliced out of the buffer so far
    frame_log,          \* history: per frame, -1 when the per-frame try
                        \* raised, else the number of positive frequencies
    \* extract_pitch_from_audio
    pitch_pc,           \* "idle", "call", "returned"
    pitch_backend,      \* what parselmouth answers: an exception or the
                        \* array pitch.selected_array['frequency']
    pitch_values,       \* local pitch_values after line 31
    valid_pitches,      \* local valid_pitches
    pitch_result,       \* the dictionary returned
    \* extract_full_analysis
    full_pc,            \* "idle", "call", "returned", "raised"
    full_result,        \* the dictionary returned
    full_exc,           \* the exception that left extract_full_analysis
    \* the same call made a second time
    frame_backend,      \* per frame of the buffer, what librosa.lpc and
                        \* np.roots compute from its samples
    call_no,            \* 1 or 2: which call of extract_resonance_from_audio
    first_result,       \* what its first call returned
    pitch_call_no,      \* 1 or 2: which call of extract_pitch_from_audio
    first_pitch_result, \* what its first call returned
    \* config.py
    config,             \* the config argument of save_config
    file,               \* what the file at path holds
    config_pc,          \* "idle", "start", "saved", "save_raised", "loaded",
                        \* "load_raised"
    config_exc,         \* the exception save_config or load_config raised
    loaded,             \* what load_config returned
    \* update_config
    update_call,        \* the arguments of update_config: config, section, updates
    update_out,         \* how the call ended: pc "call", "returned" or "raised",
                        \* exc, config (the argument as the call left it), result
    \* save_config_with_backup
    backup,             \* what the file at path + ".backup" holds
    file_before,        \* history: what the file at path held before the call
    backup_before,      \* history: what path + ".backup" held before the call
    \* db.py
    db_initialized,     \* whether the tables exist
    targets,            \* the rows of table targets, in id order: row k has id k
    db_last,            \* history: the last call on the Database, its argument
                        \* and whether it raised
    active_result,      \* what get_active_target returned last: an id, 0 for None
    \* capture.py: ClipStorage
    clips,              \* the .wav files under clips_dir: id and st_mtime of each
    tz_dst,             \* whether the local time zone sets its clocks back
    clock,              \* the time now
    max_clips,          \* ClipStorage.max_clips
    max_storage_mb,     \* ClipStorage.max_storage_mb
    clips_written,      \* history: the files after sf.write of the last save_clip
    removed,            \* history: the files the last save_clip removed, in order
    clip_out,           \* "idle", "ready", or "returned" after a save_clip
    \* capture.py: AudioRecorder
    is_recording,       \* AudioRecorder._is_recording
    audio_buffer,       \* AudioRecorder._audio_buffer: the blocks, as numbers
    stream_open,        \* whether AudioRecorder._stream is a started stream
    rec_callback,       \* AudioRecorder._callback, "none" for None
    returned,           \* what stop_recording returned last
    rec_last,           \* history: the last event
    since_start,        \* history: the blocks delivered since the last
                        \* start_recording that started a recording
    next_block,         \* the number of the next block the device delivers
    \* logging.py: FernLogger
    log_pc,             \* per thread, where it is in _ensure_logger
    lock,               \* the thread that holds FernLogger._lock, 0 for none
    logger_set,         \* whether FernLogger._logger is not None
    handlers,           \* the handlers of the logging.Logger
    initialized,        \* FernLogger._initialized
    console_output,     \* FernLogger.console_output
    installs,           \* history: how many handlers were added
    got                 \* history: per thread, the handlers of the logger
                        \* _ensure_logger returned to it

resonanceVars == <<audio_len, kind, librosa_installed, sample_rate, pc, n_frames, i,
                   roots, frequencies, f1_values, f2_values, f3_values,
                   valid_f1, valid_f2, valid_f3, result, exc, processed, frame_log>>

pitchVars == <<pitch_pc, pitch_backend, pitch_values, valid_pitches, pitch_result>>

fullVars == <<full_pc, full_result, full_exc>>

repeatVars == <<frame_backend, call_no, first_result, pitch_call_no, first_pitch_result>>

configVars == <<config, file, config_pc, config_exc, loaded>>

updateVars == <<update_call, update_out>>

backupVars == <<backup, file_before, backup_before>>

dbVars == <<db_initialized, targets, db_last, active_result>>

clipVars == <<clips, tz_dst, clock, max_clips, max_storage_mb, clips_written, removed, clip_out>>

recorderVars == <<is_recording, audio_buffer, stream_open, rec_callback, returned, rec_last, since_start, next_block>>

loggerVars == <<log_pc, lock, logger_set, handlers, initialized, console_output, installs, got>>

vars == <<resonanceVars, pitchVars, fullVars, repeatVars, configVars, updateVars, backupVars, dbVars, clipVars, recorderVars, loggerVars>>

(***************************************************************************)
(* Bounds and inputs                                                       *)
(***************************************************************************)
\* Longest buffer analysed: two frames fit from 2560 samples on.
MaxLen == 2570

frame_length == 2048
hop_length == 512

\* Multiples of 8, so that every grid frequency is a whole number of Hz:
\* 1600 gives 200..800, 8000 gives 1000..4000, 9600 gives 1200..4800.
SampleRates == {0, 1600, 8000, 9600}

\* "mono": 1-D array; "multi": 2-D array (samples x channels), averaged to
\* mono; "rank3": 3-D array, whose frames cannot be multiplied with the
\* Hann window; "notarray": an object without .shape (a list).
Kinds == {"mono", "multi", "rank3", "notarray"}

Grid == {r \in [re : {-1, 0, 1}, im : {-1, 0, 1}] : r.re # 0 \/ r.im # 0}

Conj(r) == [re |-> r.re, im |-> -r.im]

\* The roots of a real polynomial: closed under conjugation.
RootSets == {S \in SUBSET Grid : \A r \in S : Conj(r) \in S}

(***************************************************************************)
(* Floats                                                                  *)
(***************************************************************************)
RECURSIVE GCD(_, _)
GCD(a, b) == IF b = 0 THEN a ELSE GCD(b, a % b)

\* The float (n / d) ^ (1 / root); root is 1 or 2.
Zero == [num |-> 0, den |-> 1, root |-> 1]

Rat(n, d) ==
    IF n = 0 THEN Zero
    ELSE LET g == GCD(n, d) IN [num |-> n \div g, den |-> d \div g, root |-> 1]

RECURSIVE ISqrtIn(_, _, _)
ISqrtIn(x, lo, hi) ==
    IF lo >= hi THEN lo
    ELSE LET mid == (lo + hi + 1) \div 2
         IN  IF mid * mid <= x THEN ISqrtIn(x, mid, hi) ELSE ISqrtIn(x, lo, mid - 1)

\* 46340 is the largest integer whose square is below 2^31
ISqrt(x) == ISqrtIn(x, 0, IF x < 46340 THEN x ELSE 46340)

IsSquare(x) == ISqrt(x) * ISqrt(x) = x

Sqrt(q) ==
    IF IsSquare(q.num) /\ IsSquare(q.den)
    THEN Rat(ISqrt(q.num), ISqrt(q.den))
    ELSE [num |-> q.num, den |-> q.den, root |-> 2]

RECURSIVE SumSeq(_)
SumSeq(s) == IF s = <<>> THEN 0 ELSE Head(s) + SumSeq(Tail(s))

RECURSIVE SumSquares(_)
SumSquares(s) == IF s = <<>> THEN 0 ELSE Head(s) * Head(s) + SumSquares(Tail(s))

NaN == [num |-> 0, den |-> 0, root |-> 1]

\* np.mean
Mean(vals) == IF Len(vals) = 0 THEN NaN ELSE Rat(SumSeq(vals), Len(vals))

\* np.std: the population standard deviation, sqrt(mean((x - mean) ^ 2))
Std(vals) ==
    IF Len(vals) = 0 THEN NaN
    ELSE LET n == Len(vals)
             s == SumSeq(vals)
         IN  Sqrt(Rat(n * SumSquares(vals) - s * s, n * n))

(***************************************************************************)
(* Framing (lines 95-116)                                                  *)
(***************************************************************************)
NFramesNoPlusOne(len) == (len - frame_length) \div hop_length

NFramesRoundedUp(len) == (len - frame_length + hop_length - 1) \div hop_length + 1

\* line 99; // is floor division, as \div is
NFrames(len) == (len - frame_length) \div hop_length + 1

FrameStart(k) == k * hop_length

FrameEnd(k) == FrameStart(k) + frame_length

(***************************************************************************)
(* Root-to-formant mapping of one frame (lines 131-154)                    *)
(***************************************************************************)
\* line 134: roots[np.imag(roots) >= 0]
KeepUpper(rs) == {r \in rs : r.im >= 0}

\* np.arctan2(imag, real) in units of pi / 4, in (-4, 4]
Angle8(r) ==
    CASE r.im = 0 /\ r.re >= 0 -> 0
      [] r.im = 1 /\ r.re = 1 -> 1
      [] r.im = 1 /\ r.re = 0 -> 2
      [] r.im = 1 /\ r.re = -1 -> 3
      [] r.im = 0 /\ r.re = -1 -> 4
      [] r.im = -1 /\ r.re = -1 -> -3
      [] r.im = -1 /\ r.re = 0 -> -2
      [] r.im = -1 /\ r.re = 1 -> -1

\* lines 137-138: angle * sample_rate / (2 * pi)
ToFrequency(r, sr) == (Angle8(r) * sr) \div 8

NonNegative(rs, sr) == {r \in rs : ToFrequency(r, sr) >= 0}

\* line 141: frequencies[frequencies > 0]
Positive(rs, sr) == {r \in rs : ToFrequency(r, sr) > 0}

\* line 141: np.sort, one entry per root
RECURSIVE SortedFrequencies(_, _)
SortedFrequencies(rs, sr) ==
    IF rs = {} THEN <<>>
    ELSE LET m == CHOOSE r \in rs : \A q \in rs : ToFrequency(r, sr) <= ToFrequency(q, sr)
         IN  <<ToFrequency(m, sr)>> \o SortedFrequencies(rs \ {m}, sr)

\* lines 134-141
FrameFrequencies(rs, sr) == SortedFrequencies(Positive(KeepUpper(rs), sr), sr)

MapToFormantsReuseFirst(fr) ==
    IF Len(fr) >= 3 THEN <<fr[1], fr[2], fr[3]>>
    ELSE IF Len(fr) >= 2 THEN <<fr[1], fr[2], fr[1]>>
    ELSE IF Len(fr) >= 1 THEN <<fr[1], fr[1], fr[1]>>
    ELSE <<>>

\* lines 143-154: what the frame appends to (f1_values, f2_values,
\* f3_values); <<>> when it appends nothing
MapToFormants(fr) ==
    IF Len(fr) >= 3 THEN <<fr[1], fr[2], fr[3]>>
    ELSE IF Len(fr) >= 2 THEN <<fr[1], fr[2], fr[2]>>
    ELSE IF Len(fr) >= 1 THEN <<fr[1], fr[1], fr[1]>>
    ELSE <<>>

ZeroFilled == <<0, 0, 0>>

\* lines 156-158: "except Exception: continue" appends nothing
SkippedFrame == <<>>

AppendBandUnpadded(vals, cands, b) ==
    IF cands = <<>> \/ (b > 1 /\ cands[b] = cands[b - 1]) THEN vals ELSE Append(vals, cands[b])

AppendBand(vals, cands, b) == IF cands = <<>> THEN vals ELSE Append(vals, cands[b])

(***************************************************************************)
(* Plausibility filter and summary (lines 161-184, 203-214)                *)
(***************************************************************************)
InBandExclusive(v, lo, hi) == v > lo /\ v < hi

\* (a >= lo) & (a <= hi)
InBand(v, lo, hi) == v >= lo /\ v <= hi

FilterBand(vals, lo, hi) == SelectSeq(vals, LAMBDA v : InBand(v, lo, hi))

\* lines 168-170
ValidF1(vals) == FilterBand(vals, 200, 1200)

ValidF2(vals) == FilterBand(vals, 700, 2800)

ValidF3(vals) == FilterBand(vals, 1500, 3800)

\* lines 173-175
MeanOrZero(vals) == IF Len(vals) > 0 THEN Mean(vals) ELSE Zero

StdOrZeroFromThree(vals) == IF Len(vals) > 2 THEN Std(vals) ELSE Zero

\* lines 176-178
StdOrZero(vals) == IF Len(vals) > 1 THEN Std(vals) ELSE Zero

ComputedSummaryCountsF2(v1, v2, v3, f1) ==
    [f1_mean |-> MeanOrZero(v1), f2_mean |-> MeanOrZero(v2), f3_mean |-> MeanOrZero(v3),
     f1_std |-> StdOrZero(v1), f2_std |-> StdOrZero(v2), f3_std |-> StdOrZero(v3),
     formant_placeholder |-> FALSE,
     formant_frames_analyzed |-> Len(f1),
     formant_valid_frames |-> Len(v2)]

\* lines 172-182
ComputedSummary(v1, v2, v3, f1) ==
    [f1_mean |-> MeanOrZero(v1), f2_mean |-> MeanOrZero(v2), f3_mean |-> MeanOrZero(v3),
     f1_std |-> StdOrZero(v1), f2_std |-> StdOrZero(v2), f3_std |-> StdOrZero(v3),
     formant_placeholder |-> FALSE,
     formant_frames_analyzed |-> Len(f1),
     formant_valid_frames |-> Len(v1)]

EmptyResultWithoutCount ==
    [f1_mean |-> Zero, f2_mean |-> Zero, f3_mean |-> Zero,
     f1_std |-> Zero, f2_std |-> Zero, f3_std |-> Zero,
     formant_placeholder |-> FALSE]

\* _empty_resonance_result, lines 203-214
EmptyResonanceResult ==
    [f1_mean |-> Zero, f2_mean |-> Zero, f3_mean |-> Zero,
     f1_std |-> Zero, f2_std |-> Zero, f3_std |-> Zero,
     formant_placeholder |-> FALSE,
     formant_frames_analyzed |-> 0]

ErrorResultNoMessage(msg) ==
    [f1_mean |-> Zero, f2_mean |-> Zero, f3_mean |-> Zero,
     f1_std |-> Zero, f2_std |-> Zero, f3_std |-> Zero,
     formant_placeholder |-> FALSE]

\* lines 190-200: except Exception as e
ErrorResult(msg) ==
    [f1_mean |-> Zero, f2_mean |-> Zero, f3_mean |-> Zero,
     f1_std |-> Zero, f2_std |-> Zero, f3_std |-> Zero,
     formant_placeholder |-> FALSE,
     error |-> msg]

\* str(e) of the exceptions raised outside the per-frame try
ExcMessage(e) ==
    CASE e = "ImportError" -> "No module named 'librosa'"
      [] e = "AttributeError" -> "'list' object has no attribute 'shape'"
      [] e = "ValueError" -> "operands could not be broadcast together"

\* The exception classes of the model that derive from Exception
ExceptionClasses == {"ImportError", "AttributeError", "ValueError"}

\* The value of result before the function returns
NoResult == [pending |-> TRUE]

(***************************************************************************)
(* extract_resonance_from_audio (lines 71-200)                             *)
(***************************************************************************)
\* No call of extract_pitch_from_audio is under way
PitchIdle ==
    /\ pitch_pc = "idle"
    /\ pitch_backend = [raises |-> FALSE, msg |-> "", values |-> <<>>]
    /\ pitch_values = <<>>
    /\ valid_pitches = <<>>
    /\ pitch_result = NoResult

\* No call of extract_full_analysis is under way
FullIdle ==
    /\ full_pc = "idle"
    /\ full_result = NoResult
    /\ full_exc = "none"

\* No call is repeated
RepeatIdle ==
    /\ frame_backend = <<>>
    /\ call_no = 1
    /\ first_result = NoResult
    /\ pitch_call_no = 1
    /\ first_pitch_result = NoResult

\* An empty dictionary
NoDict == [k \in {} |-> 0]

\* config.py is not in use
ConfigIdle ==
    /\ config = NoDict
    /\ file = [state |-> "absent", doc |-> NoDict]
    /\ config_pc = "idle"
    /\ config_exc = "none"
    /\ loaded = NoDict

\* update_config is not called
UpdateIdle ==
    /\ update_call = [config |-> NoDict, section |-> "", updates |-> NoDict]
    /\ update_out = [pc |-> "idle", exc |-> "none", config |-> NoDict, result |-> NoDict]

\* No file
Absent == [state |-> "absent", doc |-> NoDict]

\* save_config_with_backup is not called
BackupIdle ==
    /\ backup = Absent
    /\ file_before = Absent
    /\ backup_before = Absent

\* No call on the Database yet
NoCall == [op |-> "none", arg |-> 0, raised |-> FALSE]

\* db.py is not in use
DbIdle ==
    /\ db_initialized = FALSE
    /\ targets = <<>>
    /\ db_last = NoCall
    /\ active_result = 0

\* No ClipStorage
ClipIdle ==
    /\ clips = {}
    /\ tz_dst = FALSE
    /\ clock = 0
    /\ max_clips = 0
    /\ max_storage_mb = 0
    /\ clips_written = {}
    /\ removed = <<>>
    /\ clip_out = "idle"

\* No AudioRecorder
RecorderIdle ==
    /\ is_recording = FALSE
    /\ audio_buffer = <<>>
    /\ stream_open = FALSE
    /\ rec_callback = "none"
    /\ returned = <<>>
    /\ rec_last = "idle"
    /\ since_start = <<>>
    /\ next_block = 1

\* No FernLogger
LoggerIdle ==
    /\ log_pc = <<>>
    /\ lock = 0
    /\ logger_set = FALSE
    /\ handlers = {}
    /\ initialized = FALSE
    /\ console_output = TRUE
    /\ installs = 0
    /\ got = <<>>

\* The locals of extract_resonance_from_audio before its first statement
ResonanceLocals ==
    /\ n_frames = 0
    /\ i = 0
    /\ roots = {}
    /\ frequencies = <<>>
    /\ f1_values = <<>>
    /\ f2_values = <<>>
    /\ f3_values = <<>>
    /\ valid_f1 = <<>>
    /\ valid_f2 = <<>>
    /\ valid_f3 = <<>>
    /\ result = NoResult
    /\ exc = "none"
    /\ processed = 0
    /\ frame_log = <<>>

Init ==
    /\ LoggerIdle
    /\ RecorderIdle
    /\ ClipIdle
    /\ DbIdle
    /\ BackupIdle
    /\ UpdateIdle
    /\ PitchIdle
    /\ FullIdle
    /\ RepeatIdle
    /\ ConfigIdle
    /\ audio_len \in 0..MaxLen
    /\ kind \in Kinds
    /\ librosa_installed \in BOOLEAN
    /\ sample_rate \in SampleRates
    /\ pc = "call"
    /\ ResonanceLocals

\* "return d" from inside the outer try
Return(d) ==
    /\ result' = d
    /\ pc' = "returned"

HandleOnlyValueError(e) ==
    IF e = "ImportError" THEN [pc |-> "returned", result |-> EmptyResonanceResult]
    ELSE IF e = "ValueError"
    THEN [pc |-> "returned", result |-> ErrorResult(ExcMessage(e))]
    ELSE [pc |-> "raised", result |-> NoResult]

\* lines 186-200: the except clauses of the outer try, in their order; an
\* exception that neither catches propagates to the caller
Handle(e) ==
    IF e = "ImportError" THEN [pc |-> "returned", result |-> EmptyResonanceResult]
    ELSE IF e \in ExceptionClasses
    THEN [pc |-> "returned", result |-> ErrorResult(ExcMessage(e))]
    ELSE [pc |-> "raised", result |-> NoResult]

\* An exception e raised outside the per-frame try
Raise(e) ==
    /\ exc' = e
    /\ pc' = Handle(e).pc
    /\ result' = Handle(e).result

\* lines 84-107: the import, the conversion to mono float64, the frame
\* count and the early return
Begin ==
    /\ pc = "call"
    /\ IF ~librosa_installed
       THEN /\ Raise("ImportError")
            /\ UNCHANGED <<n_frames, i>>
       ELSE IF kind = "notarray"
       THEN /\ Raise("AttributeError")
            /\ UNCHANGED <<n_frames, i>>
       ELSE /\ n_frames' = NFrames(audio_len)
            /\ i' = 0
            /\ exc' = exc
            /\ IF NFrames(audio_len) < 1
               THEN Return(EmptyResonanceResult)
               ELSE /\ pc' = "loop"
                    /\ result' = result
    /\ UNCHANGED <<audio_len, kind, librosa_installed, sample_rate, roots, frequencies,
                   f1_values, f2_values, f3_values, valid_f1, valid_f2, valid_f3,
                   processed, frame_log>>

\* One iteration of the loop, lines 109-158, whose per-frame try ends with
\* the candidates cands appended; rs and fr are the frame's roots and
\* frequencies, count its entry in the log
FrameAppends(rs, fr, cands, count) ==
    /\ roots' = rs
    /\ frequencies' = fr
    /\ f1_values' = AppendBand(f1_values, cands, 1)
    /\ f2_values' = AppendBand(f2_values, cands, 2)
    /\ f3_values' = AppendBand(f3_values, cands, 3)
    /\ frame_log' = Append(frame_log, count)
    /\ processed' = processed + 1
    /\ i' = i + 1
    /\ UNCHANGED <<pc, result, exc>>

Frame ==
    /\ pc = "loop"
    /\ i < n_frames
    /\ IF FrameEnd(i) > audio_len
       THEN \* lines 113-114: break
            /\ pc' = "stats"
            /\ UNCHANGED <<i, roots, frequencies, f1_values, f2_values, f3_values,
                           result, exc, processed, frame_log>>
       ELSE IF kind = "rank3"
       THEN \* line 119: frame * np.hanning(frame_length) cannot broadcast
            /\ Raise("ValueError")
            /\ processed' = processed + 1
            /\ UNCHANGED <<i, roots, frequencies, f1_values, f2_values, f3_values,
                           frame_log>>
       ELSE \/ \* librosa.lpc or np.roots raises: lines 156-158
               FrameAppends({}, <<>>, SkippedFrame, -1)
            \/ \E rs \in RootSets :
                 LET fr == FrameFrequencies(rs, sample_rate)
                 IN  FrameAppends(rs, fr, MapToFormants(fr), Len(fr))
    /\ UNCHANGED <<audio_len, kind, librosa_installed, sample_rate, n_frames,
                   valid_f1, valid_f2, valid_f3>>

\* lines 160-184, after the loop ended or broke
Summarize ==
    /\ \/ pc = "loop" /\ i >= n_frames
       \/ pc = "stats"
    /\ IF Len(f1_values) > 0
       THEN /\ valid_f1' = ValidF1(f1_values)
            /\ valid_f2' = ValidF2(f2_values)
            /\ valid_f3' = ValidF3(f3_values)
            /\ Return(ComputedSummary(ValidF1(f1_values), ValidF2(f2_values),
                                      ValidF3(f3_values), f1_values))
       ELSE /\ Return(EmptyResonanceResult)
            /\ UNCHANGED <<valid_f1, valid_f2, valid_f3>>
    /\ UNCHANGED <<audio_len, kind, librosa_installed, sample_rate, n_frames, i,
                   roots, frequencies, f1_values, f2_values, f3_values, exc,
                   processed, frame_log>>

Next ==
    \/ Begin /\ UNCHANGED <<pitchVars, fullVars, repeatVars, configVars, updateVars, backupVars, dbVars, clipVars, recorderVars, loggerVars>>
    \/ Frame /\ UNCHANGED <<pitchVars, fullVars, repeatVars, configVars, updateVars, backupVars, dbVars, clipVars, recorderVars, loggerVars>>
    \/ Summarize /\ UNCHANGED <<pitchVars, fullVars, repeatVars, configVars, updateVars, backupVars, dbVars, clipVars, recorderVars, loggerVars>>

Spec == Init /\ [][Next]_vars

(***************************************************************************)
(* Properties                                                              *)
(***************************************************************************)
Returned == pc = "returned"

Has(field) == field \in DOMAIN result

SixZero ==
    /\ result.f1_mean = Zero /\ result.f2_mean = Zero /\ result.f3_mean = Zero
    /\ result.f1_std = Zero /\ result.f2_std = Zero /\ result.f3_std = Zero

\* The summary is the computed one of lines 172-182
Computed == Returned /\ Has("formant_valid_frames")

\* C1: a call that runs without an exception outside the per-frame try has
\* processed exactly floor((N - 2048) / 512) + 1 frames when N >= 2048 and
\* no frame when N < 2048.
C1_FrameCount ==
    (Returned /\ exc = "none") =>
        /\ processed = IF audio_len >= 2048 THEN (audio_len - 2048) \div 512 + 1 ELSE 0
        /\ Len(frame_log) = processed

C1_Witness ==
    Returned /\ exc = "none" /\ audio_len > 2560 /\ processed = 2

\* The step is an iteration of the frame loop whose per-frame try completed
MappedStep == pc = "loop" /\ i' = i + 1 /\ frame_log'[Len(frame_log')] >= 0

AppendedTo(a, b, c) ==
    /\ f1_values' = Append(f1_values, a)
    /\ f2_values' = Append(f2_values, b)
    /\ f3_values' = Append(f3_values, c)

\* C2: a frame whose sorted positive frequencies are fr appends
\* (fr[1], fr[2], fr[3]), the three lowest in ascending order, when there
\* are 3 or more; (a, b, b) when fr = (a, b); (a, a, a) when fr = (a); and
\* nothing to any band when fr is empty.
C2_PositionalMapping ==
    [][MappedStep =>
        LET fr == frequencies'
            n == Len(fr)
        IN  /\ \A k \in 1..n : fr[k] > 0
            /\ \A k \in 1..(n - 1) : fr[k] <= fr[k + 1]
            /\ n >= 3 => AppendedTo(fr[1], fr[2], fr[3])
            /\ n = 2 => AppendedTo(fr[1], fr[2], fr[2])
            /\ n = 1 => AppendedTo(fr[1], fr[1], fr[1])
            /\ n = 0 => UNCHANGED <<f1_values, f2_values, f3_values>>]_vars

C2_Witness ==
    /\ Len(frequencies) = 2
    /\ frequencies[1] < frequencies[2]
    /\ f1_values # <<>>
    /\ f1_values[Len(f1_values)] = frequencies[1]
    /\ f2_values[Len(f2_values)] = frequencies[2]
    /\ f3_values[Len(f3_values)] = frequencies[2]

\* new is old, or old with one strictly positive frequency appended that is
\* the frequency of a root of rs with imaginary part >= 0
GrowsByCandidate(old, new, rs) ==
    \/ new = old
    \/ /\ Len(new) = Len(old) + 1
       /\ SubSeq(new, 1, Len(old)) = old
       /\ new[Len(new)] > 0
       /\ \E r \in rs : r.im >= 0 /\ ToFrequency(r, sample_rate) = new[Len(new)]

\* C3: whatever the roots of a frame, the frame contributes at most one
\* candidate per band (at most 3 in all), each a strictly positive
\* frequency of a root with imaginary part >= 0; no zero or negative
\* frequency is ever in a band.
C3_AtMostThreePositive ==
    /\ [][/\ GrowsByCandidate(f1_values, f1_values', roots')
          /\ GrowsByCandidate(f2_values, f2_values', roots')
          /\ GrowsByCandidate(f3_values, f3_values', roots')]_vars
    /\ [](\A k \in 1..Len(f1_values) :
            f1_values[k] > 0 /\ f2_values[k] > 0 /\ f3_values[k] > 0)

C3_Witness ==
    /\ Cardinality(roots) = 8
    /\ Len(frequencies) = 4
    /\ Len(f1_values) = 1 /\ Len(f2_values) = 1 /\ Len(f3_values) = 1

\* The frames (1-based positions in frame_log) whose per-frame try raised
FailedFrames == {k \in 1..Len(frame_log) : frame_log[k] = -1}

\* The frames that yielded at least one positive frequency
CandidateFrames == {k \in 1..Len(frame_log) : frame_log[k] >= 1}

\* C4: a frame on which LPC estimation or root finding raises appends
\* nothing to any band (the bands hold one entry per frame that yielded a
\* candidate, none of them zero), every later frame is still processed, and
\* the summary returned is the one computed from the other frames, without
\* an error field.
C4_FailedFrameSkipped ==
    /\ Len(f1_values) = Cardinality(CandidateFrames)
    /\ Len(f2_values) = Cardinality(CandidateFrames)
    /\ Len(f3_values) = Cardinality(CandidateFrames)
    /\ \A k \in 1..Len(f1_values) : f1_values[k] # 0 /\ f2_values[k] # 0 /\ f3_values[k] # 0
    /\ (FailedFrames # {} /\ pc \in {"loop", "stats"}) => exc = "none"
    /\ (FailedFrames # {} /\ pc \notin {"loop", "stats"}) =>
            /\ Returned
            /\ Len(frame_log) = n_frames
            /\ processed = n_frames
            /\ ~Has("error")
            /\ Has("formant_frames_analyzed")
            /\ result.formant_frames_analyzed = Cardinality(CandidateFrames)
            /\ CandidateFrames = {} => result = EmptyResonanceResult
            /\ CandidateFrames # {} =>
                    result = ComputedSummary(ValidF1(f1_values), ValidF2(f2_values),
                                             ValidF3(f3_values), f1_values)

C4_Witness ==
    /\ Returned
    /\ Len(frame_log) = 2
    /\ frame_log[1] = -1
    /\ frame_log[2] >= 1
    /\ Has("formant_frames_analyzed")
    /\ result.formant_frames_analyzed = 1

InRange(v, lo, hi) == lo <= v /\ v <= hi

\* m is the float sum(vals) / len(vals)
IsMeanOf(m, vals) ==
    /\ m.root = 1
    /\ m.den > 0
    /\ m.num * Len(vals) = m.den * SumSeq(vals)

\* C5: in a computed summary every candidate that contributes to f1_mean
\* lies in [200, 1200], to f2_mean in [700, 2800], to f3_mean in
\* [1500, 3800], bounds included, and each band keeps exactly its own
\* candidates that lie in its range, whatever the frame's other bands do.
C5_PlausibilityFilter ==
    Computed =>
        /\ \A k \in 1..Len(valid_f1) : 200 <= valid_f1[k] /\ valid_f1[k] <= 1200
        /\ \A k \in 1..Len(valid_f2) : 700 <= valid_f2[k] /\ valid_f2[k] <= 2800
        /\ \A k \in 1..Len(valid_f3) : 1500 <= valid_f3[k] /\ valid_f3[k] <= 3800
        /\ valid_f1 = SelectSeq(f1_values, LAMBDA v : InRange(v, 200, 1200))
        /\ valid_f2 = SelectSeq(f2_values, LAMBDA v : InRange(v, 700, 2800))
        /\ valid_f3 = SelectSeq(f3_values, LAMBDA v : InRange(v, 1500, 3800))
        /\ valid_f1 # <<>> => IsMeanOf(result.f1_mean, valid_f1)
        /\ valid_f2 # <<>> => IsMeanOf(result.f2_mean, valid_f2)
        /\ valid_f3 # <<>> => IsMeanOf(result.f3_mean, valid_f3)

\* A frame whose F2 counts while its F1 is rejected, beside a frame whose F1
\* sits on a bound of its range
C5_Witness ==
    /\ Computed
    /\ \E k \in 1..Len(f1_values) :
          /\ ~InRange(f1_values[k], 200, 1200)
          /\ InRange(f2_values[k], 700, 2800)
    /\ \E k \in 1..Len(f1_values) : f1_values[k] \in {200, 1200}
    /\ Len(valid_f1) = 1
    /\ result.f2_mean # Zero

PassingF1 == SelectSeq(f1_values, LAMBDA v : InRange(v, 200, 1200))

PassingF2 == SelectSeq(f2_values, LAMBDA v : InRange(v, 700, 2800))

PassingF3 == SelectSeq(f3_values, LAMBDA v : InRange(v, 1500, 3800))

\* s is the float sqrt(sum((x - mean) ^ 2) / len(vals)), stated on s ^ 2
IsStdOf(s, vals) ==
    LET n == Len(vals)
        dev == n * SumSquares(vals) - SumSeq(vals) * SumSeq(vals)
    IN  /\ s.den > 0
        /\ s.num >= 0
        /\ IF s.root = 1
           THEN s.num * s.num * n * n = s.den * s.den * dev
           ELSE s.num * n * n = s.den * dev

MeanIsRight(m, passing) == IF Len(passing) = 0 THEN m = Zero ELSE IsMeanOf(m, passing)

StdIsRight(s, passing) == IF Len(passing) < 2 THEN s = Zero ELSE IsStdOf(s, passing)

\* C6: in every summary returned without an exception, per band the mean is
\* 0.0 when no candidate passes the band's filter and else the mean of the
\* passing candidates, and the standard deviation is 0.0 when fewer than 2
\* pass and else their standard deviation.
C6_MeanAndStd ==
    (Returned /\ exc = "none") =>
        /\ MeanIsRight(result.f1_mean, PassingF1)
        /\ MeanIsRight(result.f2_mean, PassingF2)
        /\ MeanIsRight(result.f3_mean, PassingF3)
        /\ StdIsRight(result.f1_std, PassingF1)
        /\ StdIsRight(result.f2_std, PassingF2)
        /\ StdIsRight(result.f3_std, PassingF3)

\* Two distinct F1 pass (a nonzero deviation), no F2 passes, one F3 or none
C6_Witness ==
    /\ Computed
    /\ Len(PassingF1) = 2
    /\ result.f1_std # Zero
    /\ result.f1_mean # Zero
    /\ f2_values # <<>>
    /\ Len(PassingF2) = 0
    /\ result.f2_mean = Zero
    /\ Len(PassingF3) < 2
    /\ result.f3_std = Zero

\* C7: in a computed summary formant_frames_analyzed is the number of
\* frames that produced at least one positive candidate, before filtering,
\* and formant_valid_frames is the number of F1 candidates in [200, 1200].
C7_FrameCounts ==
    Computed =>
        /\ result.formant_frames_analyzed = Cardinality(CandidateFrames)
        /\ result.formant_valid_frames =
              Cardinality({k \in 1..Len(f1_values) : InRange(f1_values[k], 200, 1200)})

C7_Witness ==
    /\ Computed
    /\ Len(frame_log) = 2
    /\ result.formant_frames_analyzed = 1
    /\ result.formant_valid_frames = 0
    /\ Len(PassingF2) = 1

\* audio_data is an array, which has a shape and a length
IsBuffer == kind \in {"mono", "multi", "rank3"}

\* C8: for every buffer (array) shorter than 2048 samples, the empty one
\* included, the call returns, without an error field, a summary with the
\* six mean/std fields 0.0, formant_frames_analyzed 0 and
\* formant_placeholder False.
C8_ShortBuffer ==
    (pc \notin {"call"} /\ IsBuffer /\ audio_len < 2048) =>
        /\ Returned
        /\ ~Has("error")
        /\ SixZero
        /\ Has("formant_frames_analyzed")
        /\ result.formant_frames_analyzed = 0
        /\ Has("formant_placeholder")
        /\ result.formant_placeholder = FALSE

C8_Witness ==
    /\ Returned
    /\ librosa_installed
    /\ kind = "mono"
    /\ audio_len = 2047
    /\ result = EmptyResonanceResult

\* C9: formant_placeholder is False in every summary of a call that got to
\* the real computation, and True in the summary of the fallback taken when
\* librosa cannot be imported.
C9_PlaceholderSignalsAbsence ==
    Returned =>
        /\ librosa_installed => result.formant_placeholder = FALSE
        /\ ~librosa_installed => result.formant_placeholder = TRUE

\* C10 as stated: any exception raised outside the per-frame try is caught
\* and answered by a summary with six zero fields and an 'error' field
\* holding the exception message.
C10_AnyExceptionReported ==
    exc # "none" =>
        /\ Returned
        /\ SixZero
        /\ Has("error")
        /\ result.error = ExcMessage(exc)

\* C10, amended: an exception deriving from Exception raised outside the
\* per-frame try is never re-raised; unless it is an ImportError the call
\* returns six zero fields and an 'error' field holding its message; an
\* ImportError returns the empty summary, which has no 'error' field.
C10_ExceptionReportedUnlessImportError ==
    /\ pc # "raised"
    /\ exc # "none" => Returned /\ SixZero
    /\ exc \notin {"none", "ImportError"} => Has("error") /\ result.error = ExcMessage(exc)
    /\ exc = "ImportError" => ~Has("error") /\ result = EmptyResonanceResult

\* The exception raised by the Hann window inside the loop
C10_Witness ==
    /\ Returned
    /\ exc = "ValueError"
    /\ processed = 1
    /\ Has("error")
    /\ result.error = "operands could not be broadcast together"

(***************************************************************************)
(* extract_pitch_from_audio (lines 12-68)                                  *)
(*                                                                         *)
(* The pitch backend (parselmouth.Sound and praat's "To Pitch") is         *)
(* abstracted to its answer: an exception, or the per-frame frequency      *)
(* array, whose entries are floats with a whole number of Hz, or NaN.      *)
(***************************************************************************)
\* Longest frequency array the backend answers with
MaxPitchFrames == 3

PitchEntries == {NaN, Rat(-100, 1), Zero, Rat(220, 1), Rat(440, 1)}

SeqsUpTo(S, n) == UNION {[1..k -> S] : k \in 0..n}

PitchMessages == {"Mock parselmouth error", "sampling frequency must be positive"}

PitchRaises(m) == [raises |-> TRUE, msg |-> m, values |-> <<>>]

PitchAnswers(a) == [raises |-> FALSE, msg |-> "", values |-> a]

PitchOutcomes ==
    {PitchRaises(m) : m \in PitchMessages}
        \cup {PitchAnswers(a) : a \in SeqsUpTo(PitchEntries, MaxPitchFrames)}

\* np.isnan
IsNaN(x) == x.den = 0

ZerosKept(pv) == pv

\* line 31: pitch_values[pitch_values == 0] = np.nan
ReplaceZeros(pv) == [k \in 1..Len(pv) |-> IF pv[k] = Zero THEN NaN ELSE pv[k]]

\* line 34: pitch_values[~np.isnan(pitch_values)]
NotNaN(pv) == SelectSeq(pv, LAMBDA x : ~IsNaN(x))

\* The whole numbers of Hz of an array without NaN
Nums(fs) == [k \in 1..Len(fs) |-> fs[k].num]

RECURSIVE InsertSorted(_, _)
InsertSorted(x, s) ==
    IF s = <<>> THEN <<x>>
    ELSE IF x <= Head(s) THEN <<x>> \o s
    ELSE <<Head(s)>> \o InsertSorted(x, Tail(s))

RECURSIVE SortInts(_)
SortInts(s) == IF s = <<>> THEN <<>> ELSE InsertSorted(Head(s), SortInts(Tail(s)))

\* np.median: the middle of the sorted values, or the mean of the two middles
Median(vals) ==
    IF Len(vals) = 0 THEN NaN
    ELSE LET sorted == SortInts(vals)
             n == Len(vals)
         IN  IF n % 2 = 1 THEN Rat(sorted[(n + 1) \div 2], 1)
             ELSE Rat(sorted[n \div 2] + sorted[n \div 2 + 1], 2)

\* np.min
MinOf(vals) == Rat(SortInts(vals)[1], 1)

\* np.max
MaxOf(vals) == Rat(SortInts(vals)[Len(vals)], 1)

\* lines 36-54
PitchSummary(pv, valid) ==
    LET v == Nums(valid)
        some == Len(valid) > 0
    IN  [median_pitch |-> IF some THEN Median(v) ELSE Zero,
         mean_pitch |-> IF some THEN Mean(v) ELSE Zero,
         min_pitch |-> IF some THEN MinOf(v) ELSE Zero,
         max_pitch |-> IF some THEN MaxOf(v) ELSE Zero,
         std_pitch |-> IF some THEN Std(v) ELSE Zero,
         voiced_frames |-> Len(valid),
         total_frames |-> Len(pv),
         voicing_rate |-> IF Len(pv) > 0 THEN Rat(Len(valid), Len(pv)) ELSE Zero]

PitchErrorResultNoMessage(msg) ==
    [median_pitch |-> Zero, mean_pitch |-> Zero, min_pitch |-> Zero,
     max_pitch |-> Zero, std_pitch |-> Zero,
     voiced_frames |-> 0, total_frames |-> 0, voicing_rate |-> Zero]

\* lines 56-68: except Exception as e
PitchErrorResult(msg) ==
    [median_pitch |-> Zero, mean_pitch |-> Zero, min_pitch |-> Zero,
     max_pitch |-> Zero, std_pitch |-> Zero,
     voiced_frames |-> 0, total_frames |-> 0, voicing_rate |-> Zero,
     error |-> msg]

\* The whole call, lines 22-68
ExtractPitch ==
    /\ pitch_pc = "call"
    /\ pitch_pc' = "returned"
    /\ UNCHANGED pitch_backend
    /\ IF pitch_backend.raises
       THEN /\ pitch_result' = PitchErrorResult(pitch_backend.msg)
            /\ UNCHANGED <<pitch_values, valid_pitches>>
       ELSE LET pv == ReplaceZeros(pitch_backend.values)
                valid == NotNaN(pv)
            IN  /\ pitch_values' = pv
                /\ valid_pitches' = valid
                /\ pitch_result' = PitchSummary(pv, valid)

\* No call of extract_resonance_from_audio is under way
ResonanceIdle ==
    /\ audio_len = 0
    /\ kind = "mono"
    /\ librosa_installed = TRUE
    /\ sample_rate = 0
    /\ pc = "idle"
    /\ ResonanceLocals

InitPitch ==
    /\ LoggerIdle
    /\ RecorderIdle
    /\ ClipIdle
    /\ DbIdle
    /\ BackupIdle
    /\ UpdateIdle
    /\ ResonanceIdle
    /\ FullIdle
    /\ RepeatIdle
    /\ ConfigIdle
    /\ pitch_pc = "call"
    /\ pitch_backend \in PitchOutcomes
    /\ pitch_values = <<>>
    /\ valid_pitches = <<>>
    /\ pitch_result = NoResult

NextPitch == ExtractPitch /\ UNCHANGED <<resonanceVars, fullVars, repeatVars, configVars, updateVars, backupVars, dbVars, clipVars, recorderVars, loggerVars>>

SpecPitch == InitPitch /\ [][NextPitch]_vars

PitchReturned == pitch_pc = "returned"

\* The entries of the backend's array that are positive and not NaN
VoicedEntries == SelectSeq(pitch_backend.values, LAMBDA x : ~IsNaN(x) /\ x.num > 0)

\* C11: of the backend's array exactly the entries that are positive and
\* not NaN are voiced: voiced_frames is their count, total_frames the
\* length of the array, the five statistics are those of the voiced entries
\* and voicing_rate is voiced_frames / total_frames (0.0 for an empty
\* array); zero, negative and NaN entries are never voiced.
C11_VoicedArePositive ==
    (PitchReturned /\ ~pitch_backend.raises) =>
        LET v == Nums(VoicedEntries)
            total == Len(pitch_backend.values)
        IN  /\ pitch_result.voiced_frames = Len(v)
            /\ pitch_result.total_frames = total
            /\ valid_pitches = VoicedEntries
            /\ MeanIsRight(pitch_result.mean_pitch, v)
            /\ pitch_result.voicing_rate.num * total
                  = pitch_result.voicing_rate.den * Len(v)

\* An entry of the backend's array is unvoiced: 0 or NaN
Unvoiced(x) == IsNaN(x) \/ x = Zero

\* C12: when every entry of the backend's array is unvoiced (0 or NaN), the
\* five statistics are 0.0, voiced_frames is 0, voicing_rate is 0.0 and the
\* summary has no error field.
C12_SilenceIsAllZero ==
    (/\ PitchReturned
     /\ ~pitch_backend.raises
     /\ \A k \in 1..Len(pitch_backend.values) : Unvoiced(pitch_backend.values[k])) =>
        /\ pitch_result.median_pitch = Zero
        /\ pitch_result.mean_pitch = Zero
        /\ pitch_result.min_pitch = Zero
        /\ pitch_result.max_pitch = Zero
        /\ pitch_result.std_pitch = Zero
        /\ pitch_result.voiced_frames = 0
        /\ pitch_result.voicing_rate = Zero
        /\ "error" \notin DOMAIN pitch_result

C12_Witness ==
    /\ PitchReturned
    /\ pitch_backend.values = <<Zero, NaN, Zero>>
    /\ pitch_result.total_frames = 3
    /\ pitch_result.voiced_frames = 0

\* C13: when the pitch backend raises, the call returns (the exception does
\* not reach the caller) the five statistics 0.0, voiced_frames 0,
\* total_frames 0, voicing_rate 0.0 and 'error' equal to the message.
C13_BackendErrorCaptured ==
    (pitch_pc # "call" /\ pitch_backend.raises) =>
        /\ PitchReturned
        /\ pitch_result.median_pitch = Zero
        /\ pitch_result.mean_pitch = Zero
        /\ pitch_result.min_pitch = Zero
        /\ pitch_result.max_pitch = Zero
        /\ pitch_result.std_pitch = Zero
        /\ pitch_result.voiced_frames = 0
        /\ pitch_result.total_frames = 0
        /\ pitch_result.voicing_rate = Zero
        /\ "error" \in DOMAIN pitch_result
        /\ pitch_result.error = pitch_backend.msg

C13_Witness ==
    /\ PitchReturned
    /\ pitch_backend.raises
    /\ "error" \in DOMAIN pitch_result
    /\ pitch_result.error = "Mock parselmouth error"

(***************************************************************************)
(* extract_full_analysis (lines 217-262)                                   *)
(***************************************************************************)
\* Longest frequency array of the pitch backend in a full analysis
MaxFullPitchFrames == 1

FullPitchOutcomes ==
    {PitchRaises("Mock parselmouth error")}
        \cup {PitchAnswers(a) : a \in SeqsUpTo({Zero, Rat(440, 1)}, MaxFullPitchFrames)}

\* Buffer lengths of a full analysis: empty, one sample short of a frame,
\* one frame, two frames
FullLens == {0, frame_length - 1, frame_length, frame_length + hop_length}

\* dict.get(key, default)
Get(d, key, default) == IF key \in DOMAIN d THEN d[key] ELSE default

\* result[key] = d['error'] when d has an 'error'
WithError(m, key, d) == IF "error" \in DOMAIN d THEN m @@ (key :> d.error) ELSE m

DivisionRaisesOnEmptyToo(len, sr) == sr = 0

\* line 253: len(audio_data) / sample_rate raises ZeroDivisionError
DivisionRaises(len, sr) == len > 0 /\ sr = 0

\* line 253
Duration(len, sr) == IF len > 0 THEN Rat(len, sr) ELSE Zero

MergeResultsOneError(p, r, sr, len) ==
    WithError(
        WithError(
            [median_pitch |-> Get(p, "median_pitch", Zero),
             mean_pitch |-> Get(p, "mean_pitch", Zero),
             min_pitch |-> Get(p, "min_pitch", Zero),
             max_pitch |-> Get(p, "max_pitch", Zero),
             std_pitch |-> Get(p, "std_pitch", Zero),
             voiced_frames |-> Get(p, "voiced_frames", 0),
             total_frames |-> Get(p, "total_frames", 0),
             voicing_rate |-> Get(p, "voicing_rate", Zero),
             f1_mean |-> Get(r, "f1_mean", Zero),
             f2_mean |-> Get(r, "f2_mean", Zero),
             f3_mean |-> Get(r, "f3_mean", Zero),
             f1_std |-> Get(r, "f1_std", Zero),
             f2_std |-> Get(r, "f2_std", Zero),
             f3_std |-> Get(r, "f3_std", Zero),
             formant_placeholder |-> Get(r, "formant_placeholder", TRUE),
             sample_rate |-> sr,
             duration_seconds |-> Duration(len, sr)],
            "pitch_error", p),
        "resonance_error", p)

\* lines 231-260: the merged dictionary
MergeResults(p, r, sr, len) ==
    WithError(
        WithError(
            [median_pitch |-> Get(p, "median_pitch", Zero),
             mean_pitch |-> Get(p, "mean_pitch", Zero),
             min_pitch |-> Get(p, "min_pitch", Zero),
             max_pitch |-> Get(p, "max_pitch", Zero),
             std_pitch |-> Get(p, "std_pitch", Zero),
             voiced_frames |-> Get(p, "voiced_frames", 0),
             total_frames |-> Get(p, "total_frames", 0),
             voicing_rate |-> Get(p, "voicing_rate", Zero),
             f1_mean |-> Get(r, "f1_mean", Zero),
             f2_mean |-> Get(r, "f2_mean", Zero),
             f3_mean |-> Get(r, "f3_mean", Zero),
             f1_std |-> Get(r, "f1_std", Zero),
             f2_std |-> Get(r, "f2_std", Zero),
             f3_std |-> Get(r, "f3_std", Zero),
             formant_placeholder |-> Get(r, "formant_placeholder", TRUE),
             sample_rate |-> sr,
             duration_seconds |-> Duration(len, sr)],
            "pitch_error", p),
        "resonance_error", r)

\* line 227
FullPitch ==
    /\ full_pc = "call"
    /\ ExtractPitch
    /\ UNCHANGED <<resonanceVars, fullVars, repeatVars, configVars, updateVars, backupVars, dbVars, clipVars, recorderVars, loggerVars>>

\* line 228, entered once the pitch call has returned
FullBegin ==
    /\ full_pc = "call"
    /\ pitch_pc = "returned"
    /\ Begin
    /\ UNCHANGED <<pitchVars, fullVars, repeatVars, configVars, updateVars, backupVars, dbVars, clipVars, recorderVars, loggerVars>>

FullFrame ==
    /\ full_pc = "call"
    /\ Frame
    /\ UNCHANGED <<pitchVars, fullVars, repeatVars, configVars, updateVars, backupVars, dbVars, clipVars, recorderVars, loggerVars>>

FullSummarize ==
    /\ full_pc = "call"
    /\ Summarize
    /\ UNCHANGED <<pitchVars, fullVars, repeatVars, configVars, updateVars, backupVars, dbVars, clipVars, recorderVars, loggerVars>>

\* lines 230-262, once both calls are over; nothing here is inside a try
Merge ==
    /\ full_pc = "call"
    /\ pitch_pc = "returned"
    /\ pc \in {"returned", "raised"}
    /\ IF pc = "raised"
       THEN /\ full_pc' = "raised"
            /\ full_exc' = exc
            /\ UNCHANGED full_result
       ELSE IF DivisionRaises(audio_len, sample_rate)
       THEN /\ full_pc' = "raised"
            /\ full_exc' = "ZeroDivisionError"
            /\ UNCHANGED full_result
       ELSE /\ full_pc' = "returned"
            /\ full_result' = MergeResults(pitch_result, result, sample_rate, audio_len)
            /\ UNCHANGED full_exc
    /\ UNCHANGED <<resonanceVars, pitchVars, repeatVars, configVars, updateVars, backupVars, dbVars, clipVars, recorderVars, loggerVars>>

InitFull ==
    /\ LoggerIdle
    /\ RecorderIdle
    /\ ClipIdle
    /\ DbIdle
    /\ BackupIdle
    /\ UpdateIdle
    /\ audio_len \in FullLens
    /\ kind \in Kinds
    /\ librosa_installed \in BOOLEAN
    /\ sample_rate \in SampleRates
    /\ pc = "call"
    /\ ResonanceLocals
    /\ pitch_pc = "call"
    /\ pitch_backend \in FullPitchOutcomes
    /\ pitch_values = <<>>
    /\ valid_pitches = <<>>
    /\ pitch_result = NoResult
    /\ full_pc = "call"
    /\ full_result = NoResult
    /\ full_exc = "none"
    /\ RepeatIdle
    /\ ConfigIdle

NextFull == FullPitch \/ FullBegin \/ FullFrame \/ FullSummarize \/ Merge

SpecFull == InitFull /\ [][NextFull]_vars

FullReturned == full_pc = "returned"

PitchFields ==
    {"median_pitch", "mean_pitch", "min_pitch", "max_pitch", "std_pitch",
     "voiced_frames", "total_frames", "voicing_rate"}

ResonanceFields ==
    {"f1_mean", "f2_mean", "f3_mean", "f1_std", "f2_std", "f3_std", "formant_placeholder"}

\* C14: both sub-analyses have run when extract_full_analysis ends; in its
\* result the pitch fields are those of the pitch summary and the
\* resonance fields those of the resonance summary, whatever the other
\* sub-analysis did; pitch_error is there exactly when the pitch summary
\* has an error, with the same string, and resonance_error exactly when the
\* resonance summary has one, with the same string.
C14_IndependentSubAnalyses ==
    /\ full_pc \in {"returned", "raised"} => pitch_pc = "returned" /\ pc = "returned"
    /\ FullReturned =>
        /\ \A f \in PitchFields : full_result[f] = pitch_result[f]
        /\ \A f \in ResonanceFields : full_result[f] = result[f]
        /\ "pitch_error" \in DOMAIN full_result <=> "error" \in DOMAIN pitch_result
        /\ "resonance_error" \in DOMAIN full_result <=> "error" \in DOMAIN result
        /\ "error" \in DOMAIN pitch_result => full_result.pitch_error = pitch_result.error
        /\ "error" \in DOMAIN result => full_result.resonance_error = result.error

\* The pitch path failed and the resonance path computed a summary
C14_Witness ==
    /\ FullReturned
    /\ "pitch_error" \in DOMAIN full_result
    /\ "resonance_error" \notin DOMAIN full_result
    /\ Computed
    /\ full_result.f1_mean # Zero
    /\ full_result.f1_mean = result.f1_mean

\* C15: extract_full_analysis never raises, whatever the buffer and the
\* sample rate, 0 included.
C15_NeverRaises == full_pc # "raised"

\* C16: the result has duration_seconds = len(buffer) / sample_rate for a
\* non-empty buffer and 0.0 for an empty one, and sample_rate as given; on
\* the empty buffer the call returns, with duration_seconds 0.0.
C16_Duration ==
    /\ FullReturned =>
        /\ full_result.sample_rate = sample_rate
        /\ audio_len = 0 => full_result.duration_seconds = Zero
        /\ audio_len > 0 =>
              /\ full_result.duration_seconds.root = 1
              /\ full_result.duration_seconds.den > 0
              /\ full_result.duration_seconds.num * sample_rate
                    = full_result.duration_seconds.den * audio_len
    /\ audio_len = 0 => full_pc # "raised"

C16_Witness ==
    /\ FullReturned
    /\ audio_len = 2560
    /\ sample_rate = 1600
    /\ full_result.duration_seconds = [num |-> 8, den |-> 5, root |-> 1]

\* C19: every field of the pitch summary and every field of the resonance
\* summary, the two frame counts included, is in the result of
\* extract_full_analysis with the value the sub-analysis returned.
C19_UnionOfSummaries ==
    FullReturned =>
        /\ \A f \in DOMAIN pitch_result \ {"error"} :
              f \in DOMAIN full_result /\ full_result[f] = pitch_result[f]
        /\ \A f \in DOMAIN result \ {"error"} :
              f \in DOMAIN full_result /\ full_result[f] = result[f]

\* C18: every summary extract_resonance_from_audio returns, on every path,
\* has the six mean/std fields, formant_placeholder, formant_frames_analyzed
\* and formant_valid_frames.
C18_SummaryShape ==
    Returned =>
        {"f1_mean", "f2_mean", "f3_mean", "f1_std", "f2_std", "f3_std",
         "formant_placeholder", "formant_frames_analyzed", "formant_valid_frames"}
            \subseteq DOMAIN result

(***************************************************************************)
(* The same analysis called twice                                          *)
(***************************************************************************)
\* What librosa.lpc and np.roots make of one frame: they raise, or give the
\* roots (here conjugate pairs at the angles pi/4 and pi/2); the same
\* samples give the same answer
FrameAnswers ==
    {[raises |-> TRUE, roots |-> {}]}
        \cup {[raises |-> FALSE, roots |-> rs] :
                rs \in {S \in RootSets : \A r \in S : r.re >= 0 /\ r.im # 0}}

\* The frames of a buffer of len samples
BufferFrames(len) ==
    [1..(IF NFrames(len) > 0 THEN NFrames(len) ELSE 0) -> FrameAnswers]

KeptFromLastCall(previous) == previous

\* lines 105-107: f1_values, f2_values and f3_values are lists the call
\* creates, whatever a previous call left in its own
CallLocal(previous) == <<>>

\* The iteration of the loop on frame i gets the answer of that frame
RepeatFrame ==
    /\ Frame
    /\ i' = i + 1 =>
          /\ roots' = frame_backend[i + 1].roots
          /\ (frame_log'[Len(frame_log')] = -1) <=> frame_backend[i + 1].raises

\* extract_resonance_from_audio is called again with the same arguments
ResonanceAgain ==
    /\ pc = "returned"
    /\ call_no = 1
    /\ call_no' = 2
    /\ first_result' = result
    /\ pc' = "call"
    /\ n_frames' = 0
    /\ i' = 0
    /\ roots' = {}
    /\ frequencies' = <<>>
    /\ f1_values' = CallLocal(f1_values)
    /\ f2_values' = CallLocal(f2_values)
    /\ f3_values' = CallLocal(f3_values)
    /\ valid_f1' = <<>>
    /\ valid_f2' = <<>>
    /\ valid_f3' = <<>>
    /\ result' = NoResult
    /\ exc' = "none"
    /\ processed' = 0
    /\ frame_log' = <<>>
    /\ UNCHANGED <<audio_len, kind, librosa_installed, sample_rate, frame_backend,
                   pitch_call_no, first_pitch_result>>

\* extract_pitch_from_audio is called again with the same arguments
PitchAgain ==
    /\ pitch_pc = "returned"
    /\ pitch_call_no = 1
    /\ pitch_call_no' = 2
    /\ first_pitch_result' = pitch_result
    /\ pitch_pc' = "call"
    /\ pitch_values' = <<>>
    /\ valid_pitches' = <<>>
    /\ pitch_result' = NoResult
    /\ UNCHANGED <<pitch_backend, frame_backend, call_no, first_result>>

InitRepeat ==
    /\ LoggerIdle
    /\ RecorderIdle
    /\ ClipIdle
    /\ DbIdle
    /\ BackupIdle
    /\ UpdateIdle
    /\ FullIdle
    /\ audio_len \in FullLens
    /\ kind \in Kinds
    /\ librosa_installed \in BOOLEAN
    /\ sample_rate \in SampleRates
    /\ pc = "call"
    /\ ResonanceLocals
    /\ pitch_pc = "call"
    /\ pitch_backend \in FullPitchOutcomes
    /\ pitch_values = <<>>
    /\ valid_pitches = <<>>
    /\ pitch_result = NoResult
    /\ frame_backend \in BufferFrames(audio_len)
    /\ call_no = 1
    /\ first_result = NoResult
    /\ pitch_call_no = 1
    /\ first_pitch_result = NoResult
    /\ ConfigIdle

\* The calls of the two functions interleave in every order
NextRepeat ==
    \/ Begin /\ UNCHANGED <<pitchVars, fullVars, repeatVars, configVars, updateVars, backupVars, dbVars, clipVars, recorderVars, loggerVars>>
    \/ RepeatFrame /\ UNCHANGED <<pitchVars, fullVars, repeatVars, configVars, updateVars, backupVars, dbVars, clipVars, recorderVars, loggerVars>>
    \/ Summarize /\ UNCHANGED <<pitchVars, fullVars, repeatVars, configVars, updateVars, backupVars, dbVars, clipVars, recorderVars, loggerVars>>
    \/ ResonanceAgain /\ UNCHANGED <<pitchVars, fullVars, configVars, updateVars, backupVars, dbVars, clipVars, recorderVars, loggerVars>>
    \/ ExtractPitch /\ UNCHANGED <<resonanceVars, fullVars, repeatVars, configVars, updateVars, backupVars, dbVars, clipVars, recorderVars, loggerVars>>
    \/ PitchAgain /\ UNCHANGED <<resonanceVars, fullVars, configVars, updateVars, backupVars, dbVars, clipVars, recorderVars, loggerVars>>

SpecRepeat == InitRepeat /\ [][NextRepeat]_vars

PyValue(t, n, s, items) == [t |-> t, n |-> n, s |-> s, items |-> items]

PyInt(n) == PyValue("int", n, "", <<>>)

PyFloat(n) == PyValue("float", n, "", <<>>)

\* float('nan')
PyNaN == PyValue("nan", 0, "", <<>>)

PyStr(s) == PyValue("str", 0, s, <<>>)

PyNone == PyValue("none", 0, "", <<>>)

PyTuple(items) == PyValue("tuple", 0, "", items)

PyList(items) == PyValue("list", 0, "", items)

\* A set: a value json cannot serialise
PySet(items) == PyValue("set", 0, "", items)

\* isinstance(v, (int, float))
IsNumeric(v) == v.t \in {"int", "float", "nan"}

\* a >= b on numbers: every comparison with NaN is False
GreaterEqual(a, b) == a.t # "nan" /\ b.t # "nan" /\ a.n >= b.n

\* a == b between two distinct objects
PyEqual(a, b) ==
    IF a.t = "nan" \/ b.t = "nan" THEN FALSE
    ELSE IF IsNumeric(a) /\ IsNumeric(b) THEN a.n = b.n
    ELSE a = b

\* == on configurations: the same keys with equal values
DictEqual(a, b) ==
    /\ DOMAIN a = DOMAIN b
    /\ \A sec \in DOMAIN a :
          /\ DOMAIN a[sec] = DOMAIN b[sec]
          /\ \A k \in DOMAIN a[sec] : PyEqual(a[sec][k], b[sec][k])

\* lines 134-177: the message of the InvalidConfigError raised, "ok" when
\* validate_config returns
ValidateConfig(c) ==
    IF "target_pitch_range" \notin DOMAIN c THEN "Missing required section: target_pitch_range"
    ELSE IF "audio" \notin DOMAIN c THEN "Missing required section: audio"
    ELSE IF "analysis" \notin DOMAIN c THEN "Missing required section: analysis"
    ELSE LET target == c["target_pitch_range"]
             audio == c["audio"]
             analysis == c["analysis"]
         IN  IF "min" \notin DOMAIN target \/ "max" \notin DOMAIN target
             THEN "target_pitch_range must have 'min' and 'max' keys"
             ELSE IF ~IsNumeric(target["min"]) \/ ~IsNumeric(target["max"])
             THEN "target_pitch_range min/max must be numeric"
             ELSE IF GreaterEqual(target["min"], target["max"])
             THEN "target_pitch_range min must be less than max"
             ELSE IF "sample_rate" \notin DOMAIN audio
             THEN "audio must have 'sample_rate' key"
             ELSE IF ~IsNumeric(audio["sample_rate"])
                       \/ GreaterEqual(PyInt(0), audio["sample_rate"])
             THEN "audio.sample_rate must be a positive number"
             ELSE IF "channels" \notin DOMAIN audio
             THEN "audio must have 'channels' key"
             ELSE IF ~PyEqual(audio["channels"], PyInt(1))
                       /\ ~PyEqual(audio["channels"], PyInt(2))
             THEN "audio.channels must be 1 or 2"
             ELSE IF "pitch_min" \notin DOMAIN analysis \/ "pitch_max" \notin DOMAIN analysis
             THEN "analysis must have 'pitch_min' and 'pitch_max' keys"
             ELSE IF ~IsNumeric(analysis["pitch_min"]) \/ ~IsNumeric(analysis["pitch_max"])
             THEN "analysis pitch_min/pitch_max must be numeric"
             ELSE IF GreaterEqual(analysis["pitch_min"], analysis["pitch_max"])
             THEN "analysis pitch_min must be less than pitch_max"
             ELSE "ok"

\* json.dump of one value: ints and floats keep their spelling, NaN is
\* written as the token NaN, None as null, a tuple and a list both as an
\* array
JsonEncode(v) ==
    [j |-> CASE v.t = "int" -> "int"
             [] v.t = "float" -> "float"
             [] v.t = "nan" -> "NaN"
             [] v.t = "str" -> "string"
             [] v.t = "none" -> "null"
             [] OTHER -> "array",
     n |-> v.n, s |-> v.s, items |-> v.items]

\* json.loads of one value: an array becomes a list
JsonDecode(d) ==
    PyValue(CASE d.j = "int" -> "int"
              [] d.j = "float" -> "float"
              [] d.j = "NaN" -> "nan"
              [] d.j = "string" -> "str"
              [] d.j = "null" -> "none"
              [] OTHER -> "list",
            d.n, d.s, d.items)

\* json.dump raises TypeError: Object of type set is not JSON serializable
DumpRaises(c) == \E sec \in DOMAIN c : \E k \in DOMAIN c[sec] : c[sec][k].t = "set"

\* line 87: the document json.dump writes
JsonDump(c) == [sec \in DOMAIN c |-> [k \in DOMAIN c[sec] |-> JsonEncode(c[sec][k])]]

\* line 127: the dictionary json.loads makes of a document
JsonLoads(doc) == [sec \in DOMAIN doc |-> [k \in DOMAIN doc[sec] |-> JsonDecode(doc[sec][k])]]

\* lines 38-52: get_default_config
DefaultConfig ==
    [target_pitch_range |-> [min |-> PyFloat(80), max |-> PyFloat(250)],
     audio |-> [sample_rate |-> PyInt(44100), channels |-> PyInt(1), device |-> PyNone],
     analysis |-> [pitch_min |-> PyFloat(75), pitch_max |-> PyFloat(600)]]

Sections == {"target_pitch_range", "audio", "analysis"}

\* The values audio.device is given: None, an index, a name, a pair of
\* indices as a tuple or as a list, a set
Devices ==
    {PyNone, PyInt(1), PyStr("mic"), PyTuple(<<1, 2>>), PyList(<<1, 2>>), PySet(<<1, 2>>)}

\* The configurations save_config is called with, valid ones and invalid
\* ones
Configs ==
    {[sec \in secs |->
        CASE sec = "target_pitch_range" -> [min |-> mn, max |-> mx]
          [] sec = "audio" -> [sample_rate |-> sr, channels |-> ch, device |-> dev]
          [] OTHER -> [pitch_min |-> PyFloat(75), pitch_max |-> pmax]] :
        secs \in {Sections, Sections \ {"analysis"}},
        mn \in {PyFloat(80), PyNaN, PyStr("low")},
        mx \in {PyFloat(250), PyFloat(50)},
        sr \in {PyInt(44100), PyInt(0)},
        ch \in {PyInt(1), PyInt(3)},
        dev \in Devices,
        pmax \in {PyFloat(600), PyFloat(60)}}

\* What the file at path holds before the call: nothing (no file), the
\* empty string, text that is not JSON, a configuration saved earlier
Files ==
    {[state |-> "absent", doc |-> NoDict],
     [state |-> "empty", doc |-> NoDict],
     [state |-> "invalid", doc |-> NoDict],
     [state |-> "json", doc |-> JsonDump(DefaultConfig)]}

\* lines 73-87: save_config(config, path)
SaveConfig ==
    /\ config_pc = "start"
    /\ IF ValidateConfig(config) # "ok"
       THEN \* line 80 raises before the file is opened
            /\ config_pc' = "save_raised"
            /\ config_exc' = "InvalidConfigError"
            /\ UNCHANGED file
       ELSE IF DumpRaises(config)
       THEN \* line 86 has truncated the file, line 87 raises part way
            /\ config_pc' = "save_raised"
            /\ config_exc' = "TypeError"
            /\ file' = [state |-> "invalid", doc |-> NoDict]
       ELSE /\ config_pc' = "saved"
            /\ file' = [state |-> "json", doc |-> JsonDump(config)]
            /\ UNCHANGED config_exc
    /\ UNCHANGED <<config, loaded>>

\* lines 106-131: load_config(path), after save_config
LoadConfig ==
    /\ config_pc \in {"saved", "save_raised"}
    /\ IF file.state = "absent"
       THEN /\ config_pc' = "load_raised"
            /\ config_exc' = "ConfigFileNotFoundError"
            /\ UNCHANGED loaded
       ELSE IF file.state \in {"empty", "invalid"}
       THEN /\ config_pc' = "load_raised"
            /\ config_exc' = "InvalidConfigFileError"
            /\ UNCHANGED loaded
       ELSE /\ config_pc' = "loaded"
            /\ loaded' = JsonLoads(file.doc)
            /\ UNCHANGED config_exc
    /\ UNCHANGED <<config, file>>

InitConfig ==
    /\ LoggerIdle
    /\ RecorderIdle
    /\ ClipIdle
    /\ DbIdle
    /\ BackupIdle
    /\ UpdateIdle
    /\ ResonanceIdle
    /\ PitchIdle
    /\ FullIdle
    /\ RepeatIdle
    /\ config \in Configs
    /\ file \in Files
    /\ config_pc = "start"
    /\ config_exc = "none"
    /\ loaded = NoDict

NextConfig ==
    \/ SaveConfig /\ UNCHANGED <<resonanceVars, pitchVars, fullVars, repeatVars, updateVars, backupVars, dbVars, clipVars, recorderVars, loggerVars>>
    \/ LoadConfig /\ UNCHANGED <<resonanceVars, pitchVars, fullVars, repeatVars, updateVars, backupVars, dbVars, clipVars, recorderVars, loggerVars>>

SpecConfig == InitConfig /\ [][NextConfig]_vars

\* C20: for every configuration that passes validate_config, save_config
\* does not raise, and load_config after it returns a dictionary equal to
\* the configuration, whatever the file held before.
C20_RoundTrip ==
    ValidateConfig(config) = "ok" =>
        /\ config_pc \notin {"save_raised", "load_raised"}
        /\ config_pc = "loaded" => DictEqual(loaded, config)

(***************************************************************************)
(* Frame slices and band lengths                                           *)
(***************************************************************************)
\* C25: frame k of the loop is the slice [512 k, 512 k + 2048) of the
\* buffer, every frame of the loop ends inside the buffer, and the guard
\* of lines 113-114 never breaks the loop.
C25_FramesInsideBuffer ==
    /\ pc # "stats"
    /\ pc = "loop" =>
          \A k \in 0..(n_frames - 1) :
              /\ FrameStart(k) = 512 * k
              /\ FrameEnd(k) = 512 * k + 2048
              /\ FrameEnd(k) <= audio_len
    /\ processed <= i + 1

\* The second frame of a buffer of 2560 samples ends on its last sample
C25_Witness ==
    /\ Returned
    /\ audio_len = 2560
    /\ processed = 2
    /\ FrameEnd(i - 1) = audio_len

\* C27: during and after the loop the three bands have the same length,
\* the number of frames so far that yielded a positive frequency; a
\* computed summary has formant_valid_frames <= formant_frames_analyzed
\* <= n_frames.
C27_BandsInStep ==
    /\ Len(f1_values) = Len(f2_values)
    /\ Len(f2_values) = Len(f3_values)
    /\ Len(f1_values) = Cardinality({k \in 1..Len(frame_log) : frame_log[k] > 0})
    /\ Len(f1_values) <= processed
    /\ Computed =>
          /\ result.formant_valid_frames <= result.formant_frames_analyzed
          /\ result.formant_frames_analyzed <= n_frames

\* Two frames, one of them with a single positive frequency only, and one
\* F1 candidate out of range
C27_Witness ==
    /\ Computed
    /\ n_frames = 2
    /\ \E k \in 1..Len(frame_log) : frame_log[k] = 1
    /\ result.formant_frames_analyzed = 2
    /\ result.formant_valid_frames = 1

(***************************************************************************)
(* config.py: update_config (lines 180-200)                                *)
(***************************************************************************)
\* {**a, **b}
DictMerge(a, b) == [k \in DOMAIN a \cup DOMAIN b |-> IF k \in DOMAIN b THEN b[k] ELSE a[k]]

\* line 198: the copy with the section replaced by the merged section
WithSection(c, section, updates) ==
    [sec \in DOMAIN c |-> IF sec = section THEN DictMerge(c[sec], updates) ELSE c[sec]]

ArgumentUpdatedInPlace(c, section, updates) == WithSection(c, section, updates)

\* lines 197-198: config.copy() is a new dictionary and the assignment goes
\* to the copy, {**..., **...} is a new dictionary too: the argument and
\* its sections are as they were
ArgumentAfterUpdate(c, section, updates) == c

\* lines 194-200
UpdateConfig(c, section, updates) ==
    IF section \notin DOMAIN c
    THEN [pc |-> "raised", exc |-> "InvalidConfigError", config |-> c, result |-> NoDict]
    ELSE [pc |-> "returned", exc |-> "none",
          config |-> ArgumentAfterUpdate(c, section, updates),
          result |-> WithSection(c, section, updates)]

\* The configurations update_config is called with
UpdateConfigs ==
    {DefaultConfig,
     [sec \in Sections \ {"analysis"} |-> DefaultConfig[sec]],
     [DefaultConfig EXCEPT !["audio"]["device"] = PyStr("mic")]}

\* Its section argument: the three sections and a name that is none
UpdateSections == Sections \cup {"invalid_section"}

\* Its updates argument
Updates ==
    {NoDict,
     [sample_rate |-> PyInt(22050), channels |-> PyInt(2), device |-> PyInt(1)],
     [device |-> PyInt(1)],
     [pitch_max |-> PyFloat(500)],
     [min |-> PyFloat(100), max |-> PyFloat(300)],
     [max |-> PyFloat(50)],
     [note |-> PyStr("x")]}

UpdateCall ==
    /\ update_out.pc = "call"
    /\ update_out' = UpdateConfig(update_call.config, update_call.section, update_call.updates)
    /\ UNCHANGED update_call

\* analysis.py is not in use
AnalysisIdle == ResonanceIdle /\ PitchIdle /\ FullIdle /\ RepeatIdle

InitUpdate ==
    /\ LoggerIdle
    /\ RecorderIdle
    /\ ClipIdle
    /\ DbIdle
    /\ BackupIdle
    /\ AnalysisIdle
    /\ ConfigIdle
    /\ update_call \in [config : UpdateConfigs, section : UpdateSections, updates : Updates]
    /\ update_out = [pc |-> "call", exc |-> "none", config |-> update_call.config,
                     result |-> NoDict]

NextUpdate ==
    UpdateCall /\ UNCHANGED <<resonanceVars, pitchVars, fullVars, repeatVars, configVars, backupVars, dbVars, clipVars, recorderVars, loggerVars>>

SpecUpdate == InitUpdate /\ [][NextUpdate]_vars

\* C21: update_config returns a configuration with the keys of config in
\* which every section but the named one is as in config and the named one
\* is config's with the updates laid over it; the argument is as it was;
\* when the section is not a key of config the call raises
\* InvalidConfigError and returns nothing.
C21_OnlyNamedSectionChanges ==
    LET c == update_call.config
        section == update_call.section
        updates == update_call.updates
    IN  /\ update_out.pc \in {"returned", "raised"} => update_out.config = c
        /\ update_out.pc = "returned" =>
              /\ section \in DOMAIN c
              /\ DOMAIN update_out.result = DOMAIN c
              /\ \A sec \in DOMAIN c \ {section} : update_out.result[sec] = c[sec]
              /\ DOMAIN update_out.result[section] = DOMAIN c[section] \cup DOMAIN updates
              /\ \A k \in DOMAIN updates : update_out.result[section][k] = updates[k]
              /\ \A k \in DOMAIN c[section] \ DOMAIN updates :
                    update_out.result[section][k] = c[section][k]
        /\ update_out.pc = "raised" =>
              /\ section \notin DOMAIN c
              /\ update_out.exc = "InvalidConfigError"
              /\ update_out.result = NoDict
        /\ (update_out.pc # "call" /\ section \notin DOMAIN c) => update_out.pc = "raised"

\* The audio section was replaced, the others kept
C21_Witness ==
    /\ update_out.pc = "returned"
    /\ update_call.section = "audio"
    /\ update_call.config = DefaultConfig
    /\ update_out.result["audio"]["sample_rate"] = PyInt(22050)
    /\ update_out.result # update_call.config
    /\ update_out.result["analysis"] = DefaultConfig["analysis"]

(***************************************************************************)
(* config.py: save_config_with_backup (lines 90-103)                       *)
(***************************************************************************)
\* What path + ".backup" holds before the call: nothing, or an older backup
BackupFiles ==
    {Absent,
     [state |-> "json",
      doc |-> JsonDump([DefaultConfig EXCEPT !["audio"]["device"] = PyStr("mic")])]}

OlderBackupKept(f, b) == IF b.state = "absent" THEN f ELSE b

\* lines 100-101: the older backup is unlinked and the file renamed to it
RenamedToBackup(f, b) == f

\* lines 73-87 on a path that holds f: how save_config ends and what the
\* path holds then
SaveOutcome(c, f) ==
    IF ValidateConfig(c) # "ok"
    THEN [pc |-> "save_raised", exc |-> "InvalidConfigError", file |-> f]
    ELSE IF DumpRaises(c)
    THEN [pc |-> "save_raised", exc |-> "TypeError",
          file |-> [state |-> "invalid", doc |-> NoDict]]
    ELSE [pc |-> "saved", exc |-> "none", file |-> [state |-> "json", doc |-> JsonDump(c)]]

\* lines 90-103: save_config_with_backup(config, path)
SaveConfigWithBackup ==
    /\ config_pc = "start"
    /\ LET exists == file.state # "absent"
           moved == IF exists THEN Absent ELSE file
           out == SaveOutcome(config, moved)
       IN  /\ backup' = IF exists THEN RenamedToBackup(file, backup) ELSE backup
           /\ file' = out.file
           /\ config_pc' = out.pc
           /\ config_exc' = out.exc
    /\ UNCHANGED <<config, loaded, file_before, backup_before>>

InitBackup ==
    /\ LoggerIdle
    /\ RecorderIdle
    /\ ClipIdle
    /\ DbIdle
    /\ AnalysisIdle
    /\ UpdateIdle
    /\ config \in Configs
    /\ file \in Files
    /\ config_pc = "start"
    /\ config_exc = "none"
    /\ loaded = NoDict
    /\ backup \in BackupFiles
    /\ file_before = file
    /\ backup_before = backup

NextBackup ==
    \/ SaveConfigWithBackup
          /\ UNCHANGED <<resonanceVars, pitchVars, fullVars, repeatVars, updateVars, dbVars, clipVars, recorderVars, loggerVars>>
    \/ LoadConfig
          /\ UNCHANGED <<resonanceVars, pitchVars, fullVars, repeatVars, updateVars, backupVars, dbVars, clipVars, recorderVars, loggerVars>>

SpecBackup == InitBackup /\ [][NextBackup]_vars

\* C22: after save_config_with_backup succeeded on a path that held a
\* file, path + ".backup" holds what the file at path held before the call,
\* whatever older backup there was, and path holds the new configuration.
C22_BackupHoldsPrevious ==
    (config_pc \in {"saved", "loaded"} /\ file_before.state # "absent") =>
        /\ backup = file_before
        /\ file = [state |-> "json", doc |-> JsonDump(config)]

\* An older backup was replaced by the file saved before
C22_Witness ==
    /\ config_pc = "saved"
    /\ file_before.state = "json"
    /\ backup = file_before
    /\ backup_before.state = "json"
    /\ backup_before # backup
    /\ file.doc # file_before.doc

\* C29: when save_config_with_backup fails because the configuration does
\* not pass validate_config, the file that was at path before the call is
\* still at path, with the content it had.
C29_RejectedSaveKeepsFile ==
    (config_pc = "save_raised" /\ config_exc = "InvalidConfigError"
        /\ file_before.state # "absent") => file = file_before

(***************************************************************************)
(* db.py: the targets table                                                *)
(***************************************************************************)
\* Most rows of table targets
MaxTargets == 3

\* The created_at values of the targets
Times == {1, 2}

Row(created_at, is_active) == [created_at |-> created_at, is_active |-> is_active]

Ids(rows) == 1..Len(rows)

ActiveIds(rows) == {k \in Ids(rows) : rows[k].is_active = 1}

ActivateWithoutReset(rows, id) ==
    [k \in Ids(rows) |-> IF k = id THEN [rows[k] EXCEPT !.is_active = 1] ELSE rows[k]]

\* lines 566-567: every row is set inactive, then the row with the id active
Activate(rows, id) ==
    [k \in Ids(rows) |-> [rows[k] EXCEPT !.is_active = IF k = id THEN 1 ELSE 0]]

\* line 520: SELECT ... WHERE is_active = 1 ORDER BY created_at DESC LIMIT 1;
\* the ids of the rows the query may give (rows with the same created_at
\* come in no defined order)
ActiveCandidates(rows) ==
    {k \in ActiveIds(rows) : \A j \in ActiveIds(rows) : rows[j].created_at <= rows[k].created_at}

Called(op, arg, raised) == db_last' = [op |-> op, arg |-> arg, raised |-> raised]

\* lines 62-144: the tables are created if missing and a default active
\* target is inserted when the table is empty
Initialize ==
    /\ db_initialized' = TRUE
    /\ \E t \in Times :
          targets' = IF Len(targets) = 0 THEN <<Row(t, 1)>> ELSE targets
    /\ Called("initialize", 0, FALSE)
    /\ UNCHANGED active_result

\* lines 461-484; without the table the INSERT raises sqlite3.OperationalError
CreateTarget ==
    /\ Len(targets) < MaxTargets
    /\ \E t \in Times, a \in {0, 1} :
          IF db_initialized
          THEN /\ targets' = Append(targets, Row(t, a))
               /\ Called("create_target", Len(targets) + 1, FALSE)
          ELSE /\ Called("create_target", 0, TRUE)
               /\ UNCHANGED targets
    /\ UNCHANGED <<db_initialized, active_result>>

\* lines 558-567, for an id that is in the table or is not
SetActiveTarget ==
    /\ \E id \in 1..MaxTargets :
          IF db_initialized
          THEN /\ targets' = Activate(targets, id)
               /\ Called("set_active_target", id, FALSE)
          ELSE /\ Called("set_active_target", id, TRUE)
               /\ UNCHANGED targets
    /\ UNCHANGED <<db_initialized, active_result>>

\* lines 512-533
GetActiveTarget ==
    /\ IF ~db_initialized
       THEN Called("get_active_target", 0, TRUE) /\ UNCHANGED active_result
       ELSE IF ActiveCandidates(targets) = {}
       THEN Called("get_active_target", 0, FALSE) /\ active_result' = 0
       ELSE \E id \in ActiveCandidates(targets) :
               Called("get_active_target", 0, FALSE) /\ active_result' = id
    /\ UNCHANGED <<db_initialized, targets>>

InitDb ==
    /\ LoggerIdle
    /\ RecorderIdle
    /\ ClipIdle
    /\ AnalysisIdle
    /\ ConfigIdle
    /\ UpdateIdle
    /\ BackupIdle
    /\ db_initialized = FALSE
    /\ targets = <<>>
    /\ db_last = NoCall
    /\ active_result = 0

NextDb ==
    \/ Initialize
          /\ UNCHANGED <<resonanceVars, pitchVars, fullVars, repeatVars, configVars, updateVars, backupVars, clipVars, recorderVars, loggerVars>>
    \/ CreateTarget
          /\ UNCHANGED <<resonanceVars, pitchVars, fullVars, repeatVars, configVars, updateVars, backupVars, clipVars, recorderVars, loggerVars>>
    \/ SetActiveTarget
          /\ UNCHANGED <<resonanceVars, pitchVars, fullVars, repeatVars, configVars, updateVars, backupVars, clipVars, recorderVars, loggerVars>>
    \/ GetActiveTarget
          /\ UNCHANGED <<resonanceVars, pitchVars, fullVars, repeatVars, configVars, updateVars, backupVars, clipVars, recorderVars, loggerVars>>

SpecDb == InitDb /\ [][NextDb]_vars

\* C23: after set_active_target(id) for a target in the table that target
\* is active, every other target is inactive, and get_active_target
\* returns that target and no other.
C23_OneActiveAfterSet ==
    /\ (db_last.op = "set_active_target" /\ ~db_last.raised /\ db_last.arg \in Ids(targets)) =>
          /\ ActiveIds(targets) = {db_last.arg}
          /\ ActiveCandidates(targets) = {db_last.arg}
    /\ (db_last.op = "get_active_target" /\ ~db_last.raised) =>
          active_result \in (IF ActiveCandidates(targets) = {} THEN {0}
                             ELSE ActiveCandidates(targets))

\* The third of three targets was made active after others had been
C23_Witness ==
    /\ db_last = [op |-> "set_active_target", arg |-> 3, raised |-> FALSE]
    /\ Len(targets) = 3
    /\ ActiveIds(targets) = {3}
    /\ active_result = 1

\* C28: in every state of the database at most one target has
\* is_active = 1.
C28_AtMostOneActive == Cardinality(ActiveIds(targets)) <= 1

(***************************************************************************)
(* capture.py: ClipStorage (lines 27-145)                                  *)
(***************************************************************************)
\* Largest max_clips and max_storage_mb
MaxClipLimit == 2

\* Last instant of the clock
MaxTime == 3

\* Most files under clips_dir when the ClipStorage is made
MaxOldClips == 2

\* The instant at which a zone with daylight saving time sets its clocks
\* back, and by how much
FallBack == 2

SetBack == 2

\* Size of one clip on disk, in MB
ClipSize == 1

\* line 84: datetime.fromtimestamp(mtime), the naive local time; from the
\* instant the clocks are set back it runs SetBack behind
LocalTime(t, dst) == IF dst /\ t < FallBack THEN t + SetBack ELSE t

\* All orders of the files of S
Orders(S) ==
    {q \in [1..Cardinality(S) -> S] : \A a, b \in 1..Cardinality(S) : a # b => q[a] # q[b]}

\* lines 76-85: the files sorted by the local time of their st_mtime; files
\* with the same key come in the order os.walk met them
SortedClips(S, dst) ==
    {q \in Orders(S) :
        \A a, b \in 1..Cardinality(S) :
            a < b => LocalTime(q[a].mtime, dst) <= LocalTime(q[b].mtime, dst)}

Max(a, b) == IF a >= b THEN a ELSE b

\* lines 90-101: how many files the two loops pop off the front of a list
\* of n files, each of ClipSize
RemovedCount(n, mc, ms) ==
    LET afterFirst == IF n > mc THEN mc ELSE n
        fits == ms \div ClipSize
    IN  (n - afterFirst) + Max(afterFirst - fits, 0)

\* The set of the entries of a sequence
Range(q) == {q[k] : k \in 1..Len(q)}

Clip(id, mtime) == [id |-> id, mtime |-> mtime]

\* A file name not in use (line 123: the name carries the time to the
\* microsecond)
NewId(S) == CHOOSE id \in 1..(Cardinality(S) + 1) : \A c \in S : c.id # id

\* lines 104-145: save_clip writes the clip now and enforces the limits
SaveClip ==
    /\ clip_out \in {"ready", "returned"}
    /\ \E now \in {clock, clock + 1} \cap (0..MaxTime) :
          LET written == clips \cup {Clip(NewId(clips), now)}
          IN  /\ clock' = now
              /\ clips_written' = written
              /\ \E q \in SortedClips(written, tz_dst) :
                    LET n == RemovedCount(Len(q), max_clips, max_storage_mb)
                    IN  /\ removed' = SubSeq(q, 1, n)
                        /\ clips' = written \ Range(SubSeq(q, 1, n))
    /\ clip_out' = "returned"
    /\ UNCHANGED <<tz_dst, max_clips, max_storage_mb>>

\* The files under clips_dir when the ClipStorage is made
OldClips(now) ==
    {S \in SUBSET {Clip(id, t) : id \in 1..MaxOldClips, t \in 0..now} :
        /\ \A c, d \in S : c.id = d.id => c = d
        /\ \A c \in S : c.id <= Cardinality(S)}

InitClips ==
    /\ LoggerIdle
    /\ RecorderIdle
    /\ AnalysisIdle
    /\ ConfigIdle
    /\ UpdateIdle
    /\ BackupIdle
    /\ DbIdle
    /\ tz_dst \in BOOLEAN
    /\ clock \in 0..MaxTime
    /\ clips \in OldClips(clock)
    /\ max_clips \in 0..MaxClipLimit
    /\ max_storage_mb \in {1, 500}
    /\ clips_written = {}
    /\ removed = <<>>
    /\ clip_out = "ready"

NextClips ==
    SaveClip
        /\ UNCHANGED <<resonanceVars, pitchVars, fullVars, repeatVars, configVars, updateVars, backupVars, dbVars, recorderVars, loggerVars>>

SpecClips == InitClips /\ [][NextClips]_vars

\* The files the last save_clip removed went oldest st_mtime first
OldestFirst ==
    \A k \in 1..Len(removed) :
        \A c \in clips_written \ {removed[j] : j \in 1..(k - 1)} :
            removed[k].mtime <= c.mtime

\* C24: after every save_clip that returns there are at most max_clips
\* .wav files under clips_dir, and the files it removed were removed in
\* the order of their modification times, oldest first.
C24_AtMostMaxClips ==
    clip_out = "returned" =>
        /\ Cardinality(clips) <= max_clips
        /\ OldestFirst

(***************************************************************************)
(* capture.py: AudioRecorder (lines 228-355)                               *)
(***************************************************************************)
\* Most blocks the device delivers
MaxBlocks == 4

\* The callback argument of start_recording
Callbacks == {"none", "monitor"}

BufferKept(buffer) == buffer

\* line 320: self._audio_buffer = []
BufferAtStart(buffer) == <<>>

\* lines 285-299: the device, or a caller, hands a block to _audio_callback
AudioCallback ==
    /\ next_block <= MaxBlocks
    /\ audio_buffer' = Append(audio_buffer, next_block)
    /\ since_start' = Append(since_start, next_block)
    /\ next_block' = next_block + 1
    /\ rec_last' = "callback"
    /\ UNCHANGED <<is_recording, stream_open, rec_callback, returned>>

\* lines 301-333: start_recording; the stream opens, or sd.InputStream or
\* its start raises sd.PortAudioError
StartRecording ==
    /\ \E cb \in Callbacks, opens \in BOOLEAN :
          IF is_recording
          THEN \* lines 316-317
               /\ rec_last' = "start_ignored"
               /\ UNCHANGED <<is_recording, audio_buffer, stream_open, rec_callback,
                              since_start>>
          ELSE /\ rec_callback' = cb
               /\ audio_buffer' = BufferAtStart(audio_buffer)
               /\ IF opens
                  THEN /\ stream_open' = TRUE
                       /\ is_recording' = TRUE
                       /\ since_start' = <<>>
                       /\ rec_last' = "start"
                  ELSE \* lines 332-333: AudioDeviceError
                       /\ rec_last' = "start_raised"
                       /\ UNCHANGED <<stream_open, is_recording, since_start>>
    /\ UNCHANGED <<returned, next_block>>

\* lines 335-355: stop_recording
StopRecording ==
    /\ IF ~is_recording
       THEN \* lines 341-342
            /\ returned' = <<>>
            /\ rec_last' = "stop_ignored"
            /\ UNCHANGED <<is_recording, stream_open, rec_callback>>
       ELSE /\ stream_open' = FALSE
            /\ is_recording' = FALSE
            /\ rec_callback' = "none"
            /\ returned' = audio_buffer
            /\ rec_last' = "stop"
    /\ UNCHANGED <<audio_buffer, since_start, next_block>>

InitRecorder ==
    /\ LoggerIdle
    /\ AnalysisIdle
    /\ ConfigIdle
    /\ UpdateIdle
    /\ BackupIdle
    /\ DbIdle
    /\ ClipIdle
    /\ is_recording = FALSE
    /\ audio_buffer = <<>>
    /\ stream_open = FALSE
    /\ rec_callback = "none"
    /\ returned = <<>>
    /\ rec_last = "made"
    /\ since_start = <<>>
    /\ next_block = 1

NextRecorder ==
    \/ AudioCallback
          /\ UNCHANGED <<resonanceVars, pitchVars, fullVars, repeatVars, configVars, updateVars, backupVars, dbVars, clipVars, loggerVars>>
    \/ StartRecording
          /\ UNCHANGED <<resonanceVars, pitchVars, fullVars, repeatVars, configVars, updateVars, backupVars, dbVars, clipVars, loggerVars>>
    \/ StopRecording
          /\ UNCHANGED <<resonanceVars, pitchVars, fullVars, repeatVars, configVars, updateVars, backupVars, dbVars, clipVars, loggerVars>>

SpecRecorder == InitRecorder /\ [][NextRecorder]_vars

\* C26: stop_recording while recording returns the blocks delivered since
\* the last start_recording that started a recording, in the order they
\* came; stop_recording while not recording returns an empty array; a
\* start_recording while recording changes nothing.
C26_StopReturnsBlocksSinceStart ==
    /\ [](rec_last = "stop" => returned = since_start)
    /\ [](rec_last = "stop_ignored" => returned = <<>>)
    /\ [][rec_last' = "start_ignored" =>
            /\ is_recording
            /\ UNCHANGED <<is_recording, audio_buffer, stream_open, rec_callback,
                           returned, since_start>>]_vars
    /\ [][(is_recording /\ ~is_recording') => rec_last' = "stop"]_vars

\* The second recording returned its two blocks, not the block of the first
C26_Witness ==
    /\ rec_last = "stop"
    /\ returned = <<2, 3>>
    /\ next_block = 4

(***************************************************************************)
(* logging.py: FernLogger._ensure_logger (lines 48-85)                     *)
(***************************************************************************)
\* The threads that log through the same FernLogger
NumThreads == 2

Threads == 1..NumThreads

\* _ensure_logger returns to thread t the logger as it is now
ReturnLogger(t) ==
    /\ log_pc' = [log_pc EXCEPT ![t] = "returned"]
    /\ got' = [got EXCEPT ![t] = handlers]

\* lines 50-51, without the lock
CheckLogger(t) ==
    /\ log_pc[t] = "call"
    /\ IF logger_set
       THEN ReturnLogger(t)
       ELSE log_pc' = [log_pc EXCEPT ![t] = "acquire"] /\ UNCHANGED got
    /\ UNCHANGED <<lock, logger_set, handlers, initialized, console_output, installs>>

\* line 53: with self._lock
AcquireLock(t) ==
    /\ log_pc[t] = "acquire"
    /\ lock = 0
    /\ lock' = t
    /\ log_pc' = [log_pc EXCEPT ![t] = "recheck"]
    /\ UNCHANGED <<logger_set, handlers, initialized, console_output, installs, got>>

\* lines 54-58: the second test; the logger is assigned to self._logger
\* before it has its handlers
RecheckLogger(t) ==
    /\ log_pc[t] = "recheck"
    /\ IF logger_set
       THEN /\ ReturnLogger(t)
            /\ lock' = 0
            /\ UNCHANGED logger_set
       ELSE /\ logger_set' = TRUE
            /\ log_pc' = [log_pc EXCEPT ![t] = "clear"]
            /\ UNCHANGED <<lock, got>>
    /\ UNCHANGED <<handlers, initialized, console_output, installs>>

\* line 61
ClearHandlers(t) ==
    /\ log_pc[t] = "clear"
    /\ handlers' = {}
    /\ log_pc' = [log_pc EXCEPT ![t] = "file"]
    /\ UNCHANGED <<lock, logger_set, initialized, console_output, installs, got>>

\* lines 70-75
AddFileHandler(t) ==
    /\ log_pc[t] = "file"
    /\ handlers' = handlers \cup {"file"}
    /\ installs' = installs + 1
    /\ log_pc' = [log_pc EXCEPT ![t] = "console"]
    /\ UNCHANGED <<lock, logger_set, initialized, console_output, got>>

\* lines 77-84: the console handler when asked for, then the return, which
\* leaves the with block
AddConsoleHandler(t) ==
    /\ log_pc[t] = "console"
    /\ handlers' = IF console_output THEN handlers \cup {"console"} ELSE handlers
    /\ installs' = IF console_output THEN installs + 1 ELSE installs
    /\ initialized' = TRUE
    /\ lock' = 0
    /\ log_pc' = [log_pc EXCEPT ![t] = "returned"]
    /\ got' = [got EXCEPT ![t] = IF console_output THEN handlers \cup {"console"}
                                 ELSE handlers]
    /\ UNCHANGED <<logger_set, console_output>>

\* lines 87-112: a logging method reads the logger property again
LogAgain(t) ==
    /\ log_pc[t] = "returned"
    /\ log_pc' = [log_pc EXCEPT ![t] = "call"]
    /\ UNCHANGED <<lock, logger_set, handlers, initialized, console_output, installs, got>>

InitLogger ==
    /\ AnalysisIdle
    /\ ConfigIdle
    /\ UpdateIdle
    /\ BackupIdle
    /\ DbIdle
    /\ ClipIdle
    /\ RecorderIdle
    /\ log_pc = [t \in Threads |-> "call"]
    /\ lock = 0
    /\ logger_set = FALSE
    /\ handlers \in {{}, {"stale"}}
    /\ initialized = FALSE
    /\ console_output \in BOOLEAN
    /\ installs = 0
    /\ got = [t \in Threads |-> {"nothing"}]

\* The threads run _ensure_logger statement by statement, in any order
NextLogger ==
    \/ (\E t \in Threads : CheckLogger(t))
          /\ UNCHANGED <<resonanceVars, pitchVars, fullVars, repeatVars, configVars, updateVars, backupVars, dbVars, clipVars, recorderVars>>
    \/ (\E t \in Threads : AcquireLock(t))
          /\ UNCHANGED <<resonanceVars, pitchVars, fullVars, repeatVars, configVars, updateVars, backupVars, dbVars, clipVars, recorderVars>>
    \/ (\E t \in Threads : RecheckLogger(t))
          /\ UNCHANGED <<resonanceVars, pitchVars, fullVars, repeatVars, configVars, updateVars, backupVars, dbVars, clipVars, recorderVars>>
    \/ (\E t \in Threads : ClearHandlers(t))
          /\ UNCHANGED <<resonanceVars, pitchVars, fullVars, repeatVars, configVars, updateVars, backupVars, dbVars, clipVars, recorderVars>>
    \/ (\E t \in Threads : AddFileHandler(t))
          /\ UNCHANGED <<resonanceVars, pitchVars, fullVars, repeatVars, configVars, updateVars, backupVars, dbVars, clipVars, recorderVars>>
    \/ (\E t \in Threads : AddConsoleHandler(t))
          /\ UNCHANGED <<resonanceVars, pitchVars, fullVars, repeatVars, configVars, updateVars, backupVars, dbVars, clipVars, recorderVars>>
    \/ (\E t \in Threads : LogAgain(t))
          /\ UNCHANGED <<resonanceVars, pitchVars, fullVars, repeatVars, configVars, updateVars, backupVars, dbVars, clipVars, recorderVars>>

SpecLogger == InitLogger /\ [][NextLogger]_vars

\* The handlers the FernLogger is to have
ExpectedHandlers == IF console_output THEN {"file", "console"} ELSE {"file"}

\* C30: when several threads use a FernLogger that is not initialised yet,
\* each handler is installed once, and the logger _ensure_logger returns
\* to a thread has its handlers attached.
C30_InitialisedOnce ==
    /\ installs <= Cardinality(ExpectedHandlers)
    /\ initialized => handlers = ExpectedHandlers /\ installs = Cardinality(ExpectedHandlers)
    /\ \A t \in Threads : log_pc[t] = "returned" => got[t] = ExpectedHandlers

====
